---- MODULE Spec2Model ----
(***************************************************************************)
(* Monocular drone localisation pipeline (src/pipeline).                   *)
(*                                                                         *)
(* Numbers.  The Python code computes on floats (float32 arrays, Python    *)
(* floats).  The model computes on exact rationals <<n, d>> (d > 0, in     *)
(* lowest terms); int(), floor and ceil are modelled by what they do on    *)
(* such a rational.  Rounding, overflow and underflow of the floating      *)
(* point formats are outside the model: the inputs are small integers and  *)
(* halves, for which every float32 product and sum of the code is exact.   *)
(***************************************************************************)
EXTENDS Integers, Sequences, FiniteSets, TLC

VARIABLES
    pc,               \* position of the (single-threaded) caller / callee
    entry,            \* the pipeline entry point being executed
    images,           \* run_calibration_pipeline argument
    image,            \* run_runtime_pipeline argument / calibration loop variable
    true_distances,   \* run_calibration_pipeline argument
    detection_mode,   \* "demo" | "real"
    depth_mode,       \* "demo" | "real"
    detector_model,   \* the detector passed in (None in demo mode)
    depth_model,      \* the depth model passed in (None in demo mode)
    scale_factor,     \* run_runtime_pipeline argument
    intrinsics,       \* the caller's intrinsics dict
    idx,              \* number of zip pairs consumed so far
    relative_depths,  \* local list / compute_scale_factor argument
    z_true_values,    \* local list / compute_scale_factor argument
    detection,        \* local: detection dict
    depth_map,        \* local: depth map
    bbox,             \* extract_drone_relative_depth argument / local bbox
    d_rel,            \* local: relative depth at the drone location
    x_pixel,          \* reconstruct_drone_position argument
    y_pixel,          \* reconstruct_drone_position argument
    z_hat,            \* metric depth / reconstruct_drone_position argument z
    result,           \* what the call returned or raised
    steps,            \* history: the steps the current call executed, in order
    intrinsics_in,    \* history: the intrinsics as they were when the call began
    prev              \* history: arguments and result of an earlier pipeline call

vars == <<pc, entry, images, image, true_distances, detection_mode, depth_mode,
          detector_model, depth_model, scale_factor, intrinsics, idx,
          relative_depths, z_true_values, detection, depth_map, bbox, d_rel,
          x_pixel, y_pixel, z_hat, result, steps, intrinsics_in, prev>>

None == "None"

(***************************************************************************)
(* Exact rational arithmetic standing for the code's float arithmetic.     *)
(***************************************************************************)
Abs(a) == IF a < 0 THEN -a ELSE a

RECURSIVE GCD(_, _)
GCD(a, b) == IF b = 0 THEN a ELSE GCD(b, a % b)

Rat(n, d) ==
    LET g == GCD(Abs(n), Abs(d))
        s == IF d < 0 THEN -1 ELSE 1
    IN  <<(s * n) \div g, (s * d) \div g>>

RInt(k) == <<k, 1>>

RAdd(r, s) ==
    LET g == GCD(r[2], s[2])
    IN  Rat(r[1] * (s[2] \div g) + s[1] * (r[2] \div g), (r[2] \div g) * s[2])

RNeg(r) == <<-r[1], r[2]>>

RSub(r, s) == RAdd(r, RNeg(s))

RMul(r, s) ==
    LET g1 == GCD(Abs(r[1]), s[2])
        g2 == GCD(Abs(s[1]), r[2])
    IN  <<(r[1] \div g1) * (s[1] \div g2), (r[2] \div g2) * (s[2] \div g1)>>

\* r / s for s # 0
RDiv(r, s) ==
    RMul(r, IF s[1] < 0 THEN <<-s[2], -s[1]>> ELSE <<s[2], s[1]>>)

RLess(r, s) == r[1] * s[2] < s[1] * r[2]

RLeq(r, s) == r[1] * s[2] <= s[1] * r[2]

\* Python int(x): truncation toward zero
PyInt(r) == IF r[1] >= 0 THEN r[1] \div r[2] ELSE -((-r[1]) \div r[2])

\* the roundings of the reference clamp rule (the code itself uses int())
Floor(r) == r[1] \div r[2]

Ceil(r) == -((-r[1]) \div r[2])

Max(a, b) == IF a >= b THEN a ELSE b

Min(a, b) == IF a <= b THEN a ELSE b

Ok(v) == [kind |-> "ok", value |-> v]

Raise(exc, msg) == [kind |-> "error", exc |-> exc, msg |-> msg]

NoResult == [kind |-> "none"]

(***************************************************************************)
(* calibration/scale_calibration.py                                        *)
(***************************************************************************)
RECURSIVE SumProducts(_, _)
\* np.sum(a * b) over the common prefix of a and b
SumProducts(a, b) ==
    IF a = <<>> \/ b = <<>> THEN RInt(0)
    ELSE RAdd(RMul(Head(a), Head(b)), SumProducts(Tail(a), Tail(b)))

EmptyMsg == "Calibration data is empty."

MismatchMsg == "Mismatched calibration data lengths."

AllZeroMsg == "Relative depth values are all zero."

\* a slip in the normal equation: the denominator sums d instead of d * d
compute_scale_factor_plainsum(d, z) ==
    IF Len(d) = 0 \/ Len(z) = 0 THEN Raise("ValueError", EmptyMsg)
    ELSE IF Len(d) # Len(z) THEN Raise("ValueError", MismatchMsg)
    ELSE LET numerator == SumProducts(d, z)
             denominator == SumProducts(d, [i \in 1..Len(d) |-> RInt(1)])
         IN  IF denominator[1] = 0 THEN Raise("ValueError", AllZeroMsg)
             ELSE Ok(RDiv(numerator, denominator))

\* the two first checks in the other order
compute_scale_factor_lengthsfirst(d, z) ==
    IF Len(d) # Len(z) THEN Raise("ValueError", MismatchMsg)
    ELSE IF Len(d) = 0 \/ Len(z) = 0 THEN Raise("ValueError", EmptyMsg)
    ELSE LET numerator == SumProducts(d, z)
             denominator == SumProducts(d, d)
         IN  IF denominator[1] = 0 THEN Raise("ValueError", AllZeroMsg)
             ELSE Ok(RDiv(numerator, denominator))

compute_scale_factor(d, z) ==
    IF Len(d) = 0 \/ Len(z) = 0 THEN Raise("ValueError", EmptyMsg)
    ELSE IF Len(d) # Len(z) THEN Raise("ValueError", MismatchMsg)
    ELSE LET numerator == SumProducts(d, z)
             denominator == SumProducts(d, d)
         IN  IF denominator[1] = 0 THEN Raise("ValueError", AllZeroMsg)
             ELSE Ok(RDiv(numerator, denominator))

(***************************************************************************)
(* depth/drone_depth.py                                                    *)
(* A depth map is [shape |-> <<h, w>>, data |-> rows], rows indexed from 0. *)
(***************************************************************************)
InvalidBoxMsg == "Invalid drone bounding box."

NoDepthMsg == "No depth values found at drone location."

\* the near corner clamped to w, h instead of w - 1, h - 1
ClampedBox_nearcorner(b, h, w) ==
    <<Max(0, Min(PyInt(b[1]), w)),
      Max(0, Min(PyInt(b[2]), h)),
      Max(0, Min(PyInt(b[3]), w)),
      Max(0, Min(PyInt(b[4]), h))>>

\* the far corner not clamped to the frame
ClampedBox_farcorner(b, h, w) ==
    <<Max(0, Min(PyInt(b[1]), w - 1)),
      Max(0, Min(PyInt(b[2]), h - 1)),
      Max(0, PyInt(b[3])),
      Max(0, PyInt(b[4]))>>

\* x1, y1, x2, y2 after "Clamp bounding box to valid image coordinates"
ClampedBox(b, h, w) ==
    <<Max(0, Min(PyInt(b[1]), w - 1)),
      Max(0, Min(PyInt(b[2]), h - 1)),
      Max(0, Min(PyInt(b[3]), w)),
      Max(0, Min(PyInt(b[4]), h))>>

\* the indices a Python slice [a:b] selects on an axis of length n
SliceIndices(a, b, n) ==
    LET start == IF a < 0 THEN Max(a + n, 0) ELSE Min(a, n)
        stop == IF b < 0 THEN Max(b + n, 0) ELSE Min(b, n)
    IN  [k \in 1..Max(stop - start, 0) |-> start + k - 1]

\* depth_map[y1:y2, x1:x2], flattened in row-major order
SliceValues(dm, y1, y2, x1, x2) ==
    LET rows == SliceIndices(y1, y2, dm.shape[1])
        cols == SliceIndices(x1, x2, dm.shape[2])
        nc == Len(cols)
    IN  [k \in 1..(Len(rows) * nc) |->
            dm.data[rows[((k - 1) \div nc) + 1]][cols[((k - 1) % nc) + 1]]]

RECURSIVE Insert(_, _)
Insert(v, s) ==
    IF s = <<>> THEN <<v>>
    ELSE IF RLeq(v, Head(s)) THEN <<v>> \o s
    ELSE <<Head(s)>> \o Insert(v, Tail(s))

RECURSIVE SortValues(_)
SortValues(s) == IF s = <<>> THEN <<>> ELSE Insert(Head(s), SortValues(Tail(s)))

\* the lower middle value, also for an even number of values
Median_lowermiddle(values) ==
    LET s == SortValues(values)
    IN  s[(Len(s) + 1) \div 2]

\* np.median of a non-empty array: the middle of the sorted values, the mean
\* of the two middle ones when their number is even
Median(values) ==
    LET s == SortValues(values)
        n == Len(s)
    IN  IF n % 2 = 1 THEN s[(n + 1) \div 2]
        ELSE RDiv(RAdd(s[n \div 2], s[(n \div 2) + 1]), RInt(2))

extract_drone_relative_depth(dm, b) ==
    LET h == dm.shape[1]
        w == dm.shape[2]
        c == ClampedBox(b, h, w)
        x1 == c[1]
        y1 == c[2]
        x2 == c[3]
        y2 == c[4]
    IN  IF x2 <= x1 \/ y2 <= y1 THEN Raise("ValueError", InvalidBoxMsg)
        ELSE LET drone_depth_values == SliceValues(dm, y1, y2, x1, x2)
             IN  IF Len(drone_depth_values) = 0 THEN Raise("ValueError", NoDepthMsg)
                 ELSE Ok(Median(drone_depth_values))

(***************************************************************************)
(* geometry/projection.py                                                  *)
(* intrinsics is a record [fx, fy, cx, cy] of rationals.                   *)
(***************************************************************************)
IntrinsicsMsg == "Invalid camera intrinsics: fx and fy must be non-zero."

\* the check demands both focal lengths to be zero
reconstruct_drone_position_bothzero(xp, yp, z, intr) ==
    IF intr.fx[1] = 0 /\ intr.fy[1] = 0 THEN Raise("ValueError", IntrinsicsMsg)
    ELSE Ok(<<RDiv(RMul(RSub(xp, intr.cx), z), intr.fx),
              RDiv(RMul(RSub(yp, intr.cy), z), intr.fy),
              z>>)

reconstruct_drone_position(xp, yp, z, intr) ==
    IF intr.fx[1] = 0 \/ intr.fy[1] = 0 THEN Raise("ValueError", IntrinsicsMsg)
    ELSE Ok(<<RDiv(RMul(RSub(xp, intr.cx), z), intr.fx),
              RDiv(RMul(RSub(yp, intr.cy), z), intr.fy),
              z>>)

(***************************************************************************)
(* detection/detector.py                                                   *)
(* A detector model maps an image to its candidate boxes, each             *)
(* [conf |-> rational, xyxy |-> <<x1, y1, x2, y2>>] (results[0].boxes).    *)
(* A detection is [bbox |-> <<x1, y1, x2, y2>>, x_pixel, y_pixel].         *)
(***************************************************************************)
NoDroneMsg == "No drone detected in image."

RECURSIVE BestBox(_, _, _)
\* the loop "for box in detections": the first box of the highest confidence
BestBox(detections, best_conf, best_box) ==
    IF detections = <<>> THEN best_box
    ELSE IF RLess(best_conf, Head(detections).conf)
         THEN BestBox(Tail(detections), Head(detections).conf, Head(detections))
         ELSE BestBox(Tail(detections), best_conf, best_box)

detect_drone(img, model) ==
    LET detections == model[img]
    IN  IF Len(detections) = 0 THEN Raise("RuntimeError", NoDroneMsg)
        ELSE LET best_box == BestBox(detections, RInt(-1), None)
                 x1 == best_box.xyxy[1]
                 y1 == best_box.xyxy[2]
                 x2 == best_box.xyxy[3]
                 y2 == best_box.xyxy[4]
             IN  Ok([bbox |-> <<RInt(PyInt(x1)), RInt(PyInt(y1)),
                                RInt(PyInt(x2)), RInt(PyInt(y2))>>,
                     x_pixel |-> RDiv(RAdd(x1, x2), RInt(2)),
                     y_pixel |-> RDiv(RAdd(y1, y2), RInt(2))])

\* u: the values of the four random.uniform calls, in order
detect_drone_demo(img, image_width, image_height, u) ==
    LET box_width == RMul(u[1], RInt(image_width))
        box_height == RMul(u[2], RInt(image_height))
        center_x == RMul(u[3], RInt(image_width))
        center_y == RMul(u[4], RInt(image_height))
        x1 == PyInt(RSub(center_x, RDiv(box_width, RInt(2))))
        y1 == PyInt(RSub(center_y, RDiv(box_height, RInt(2))))
        x2 == PyInt(RAdd(center_x, RDiv(box_width, RInt(2))))
        y2 == PyInt(RAdd(center_y, RDiv(box_height, RInt(2))))
    IN  Ok([bbox |-> <<RInt(Max(0, x1)), RInt(Max(0, y1)),
                       RInt(Min(image_width - 1, x2)), RInt(Min(image_height - 1, y2))>>,
            x_pixel |-> center_x,
            y_pixel |-> center_y])

(***************************************************************************)
(* depth/depth_model.py                                                    *)
(* A depth model maps an image to what calling it gives: Ok(map) or an     *)
(* exception.                                                              *)
(***************************************************************************)
estimate_relative_depth(img, model) == model[img]

\* np.linspace(0.5, 2.5, height * width).reshape((height, width))
estimate_relative_depth_demo(img, width, height) ==
    LET n == height * width
        Value(i) == IF n = 1 THEN <<1, 2>> ELSE Rat((n - 1) + 4 * i, 2 * (n - 1))
    IN  Ok([shape |-> <<height, width>>,
            data |-> [r \in 0..(height - 1) |->
                        [c \in 0..(width - 1) |-> Value(r * width + c)]]])

(***************************************************************************)
(* Calls of the three numeric functions on bounded inputs.                 *)
(***************************************************************************)
MaxLen == 3

MaxDim == 2

RECURSIVE SeqsUpTo(_, _)
\* the sequences over S of length at most n
SeqsUpTo(S, n) ==
    IF n = 0 THEN {<<>>}
    ELSE LET shorter == SeqsUpTo(S, n - 1)
         IN  shorter \cup {Append(q, v) : q \in shorter, v \in S}

DepthInputs == {<<0, 1>>, <<1, 2>>, <<1, 1>>, <<2, 1>>, <<3, 1>>}

DistanceInputs == {<<-2, 1>>, <<1, 1>>, <<2, 1>>, <<4, 1>>, <<6, 1>>}

\* a gradient map: value a*r + b*c + k at row r, column c
MapOf(h, w, a, b, k) ==
    [shape |-> <<h, w>>,
     data |-> [r \in 0..(h - 1) |-> [c \in 0..(w - 1) |-> RInt(a * r + b * c + k)]]]

\* an unordered map: value ((a*r + b*c + k) mod 3) / 2
ModMapOf(h, w, a, b, k) ==
    [shape |-> <<h, w>>,
     data |-> [r \in 0..(h - 1) |->
                 [c \in 0..(w - 1) |-> Rat((a * r + b * c + k) % 3, 2)]]]

\* depth maps of every shape up to MaxDim x MaxDim (empty axes included)
DepthMapInputs ==
    {MapOf(h, w, a, b, 0) : h \in 0..MaxDim, w \in 0..MaxDim, a \in 0..2, b \in 0..2}
    \cup {MapOf(h, w, 0, 0, k) : h \in 0..MaxDim, w \in 0..MaxDim, k \in {1, 3}}
    \cup {ModMapOf(h, w, a, b, k) : h \in 0..MaxDim, w \in 0..MaxDim,
                                    a \in 1..2, b \in 1..2, k \in 0..2}

\* raw coordinates on an axis of length n: negative, fractional, on the
\* border and beyond it
CoordInputs(n) ==
    {<<-3, 2>>, <<-1, 1>>, <<0, 1>>, <<1, 2>>, <<1, 1>>, <<3, 2>>, <<n, 1>>, <<n + 5, 1>>}

BoxInputs(h, w) ==
    {<<x1, y1, x2, y2>> : x1 \in CoordInputs(w), y1 \in CoordInputs(h),
                          x2 \in CoordInputs(w), y2 \in CoordInputs(h)}

PixelInputs == {<<0, 1>>, <<320, 1>>, <<240, 1>>, <<481, 2>>}

MetricInputs == {<<-2, 1>>, <<0, 1>>, <<10, 1>>}

IntrinsicsInputs ==
    [fx : {<<0, 1>>, <<100, 1>>, <<-50, 1>>}, fy : {<<0, 1>>, <<100, 1>>, <<3, 2>>},
     cx : {<<320, 1>>, <<0, 1>>}, cy : {<<240, 1>>, <<1, 2>>}]

NoCall == [set |-> FALSE]

PipelineIdle ==
    /\ entry = None /\ images = None /\ image = None /\ true_distances = None
    /\ detection_mode = None /\ depth_mode = None
    /\ detector_model = None /\ depth_model = None
    /\ scale_factor = None /\ idx = 0 /\ d_rel = None
    /\ detection = None /\ steps = <<>> /\ prev = NoCall

PipelineUntouched ==
    UNCHANGED <<entry, images, image, true_distances, detection_mode, depth_mode,
                detector_model, depth_model, scale_factor, idx, d_rel, detection,
                steps, prev>>

InitScale ==
    /\ pc = "compute_scale_factor"
    /\ relative_depths \in SeqsUpTo(DepthInputs, MaxLen)
    /\ z_true_values \in SeqsUpTo(DistanceInputs, MaxLen)
    /\ result = NoResult
    /\ PipelineIdle
    /\ depth_map = None /\ bbox = None
    /\ x_pixel = None /\ y_pixel = None /\ z_hat = None
    /\ intrinsics = None /\ intrinsics_in = None

ScaleCall ==
    /\ pc = "compute_scale_factor"
    /\ result' = compute_scale_factor(relative_depths, z_true_values)
    /\ pc' = "returned"
    /\ PipelineUntouched
    /\ UNCHANGED <<relative_depths, z_true_values, depth_map, bbox, x_pixel,
                   y_pixel, z_hat, intrinsics, intrinsics_in>>

SpecScale == InitScale /\ [][ScaleCall]_vars

InitDepth ==
    /\ pc = "extract_drone_relative_depth"
    /\ depth_map \in DepthMapInputs
    /\ bbox \in BoxInputs(depth_map.shape[1], depth_map.shape[2])
    /\ result = NoResult
    /\ PipelineIdle
    /\ relative_depths = None /\ z_true_values = None
    /\ x_pixel = None /\ y_pixel = None /\ z_hat = None
    /\ intrinsics = None /\ intrinsics_in = None

ExtractCall ==
    /\ pc = "extract_drone_relative_depth"
    /\ result' = extract_drone_relative_depth(depth_map, bbox)
    /\ pc' = "returned"
    /\ PipelineUntouched
    /\ UNCHANGED <<relative_depths, z_true_values, depth_map, bbox, x_pixel,
                   y_pixel, z_hat, intrinsics, intrinsics_in>>

SpecDepth == InitDepth /\ [][ExtractCall]_vars

InitProjection ==
    /\ pc = "reconstruct_drone_position"
    /\ x_pixel \in PixelInputs
    /\ y_pixel \in PixelInputs
    /\ z_hat \in MetricInputs
    /\ intrinsics \in IntrinsicsInputs
    /\ intrinsics_in = intrinsics
    /\ result = NoResult
    /\ PipelineIdle
    /\ relative_depths = None /\ z_true_values = None
    /\ depth_map = None /\ bbox = None

\* the function only reads the dict it is given
ProjectionCall ==
    /\ pc = "reconstruct_drone_position"
    /\ result' = reconstruct_drone_position(x_pixel, y_pixel, z_hat, intrinsics)
    /\ intrinsics' = intrinsics
    /\ pc' = "returned"
    /\ PipelineUntouched
    /\ UNCHANGED <<relative_depths, z_true_values, depth_map, bbox, x_pixel,
                   y_pixel, z_hat, intrinsics_in>>

SpecProjection == InitProjection /\ [][ProjectionCall]_vars

(***************************************************************************)
(* Properties of compute_scale_factor (under SpecScale).                   *)
(***************************************************************************)
SomeNonZero(d) == \E i \in 1..Len(d) : d[i][1] # 0

RECURSIVE ResidualDot(_, _, _, _)
\* sum over i <= n of d[i] * (z[i] - s * d[i])
ResidualDot(d, z, s, n) ==
    IF n = 0 THEN RInt(0)
    ELSE RAdd(RMul(d[n], RSub(z[n], RMul(s, d[n]))), ResidualDot(d, z, s, n - 1))

\* z[i] = k * d[i] for every i
Proportional(d, z, k) == \A i \in 1..Len(d) : z[i] = RMul(k, d[i])

\* C1: for equal-length non-empty d, z with some d[i] # 0 the call returns the
\* least-squares s through the origin, s = (sum d[i]*z[i]) / (sum d[i]^2), that
\* is the s whose residual z - s*d is orthogonal to d; and when z[i] = k*d[i]
\* for every i the returned s is exactly k.
C1_LeastSquaresThroughOrigin ==
    (/\ pc = "returned"
     /\ Len(relative_depths) = Len(z_true_values)
     /\ Len(relative_depths) > 0
     /\ SomeNonZero(relative_depths))
    => /\ result.kind = "ok"
       /\ ResidualDot(relative_depths, z_true_values, result.value,
                      Len(relative_depths)) = RInt(0)
       /\ \A j \in 1..Len(relative_depths) :
            (/\ relative_depths[j][1] # 0
             /\ Proportional(relative_depths, z_true_values,
                             RDiv(z_true_values[j], relative_depths[j])))
            => result.value = RDiv(z_true_values[j], relative_depths[j])

C1_Witness ==
    /\ pc = "returned"
    /\ relative_depths = <<RInt(1), RInt(2), RInt(3)>>
    /\ z_true_values = <<RInt(2), RInt(4), RInt(6)>>
    /\ result = Ok(RInt(2))

ErrorIs(r, msg) == r.kind = "error" /\ r.exc = "ValueError" /\ r.msg = msg

AllZero(d) == \A i \in 1..Len(d) : d[i][1] = 0

\* C6 as stated: a scale factor is returned only for non-empty, equal-length
\* sequences with some d[i] # 0; the call fails with the empty-set error when
\* n = 0, with the mismatched-lengths error whenever the lengths differ
\* (also when exactly one sequence is empty), and with the degenerate-data
\* error when every d[i] is zero.
C6_MismatchWheneverLengthsDiffer ==
    pc = "returned" =>
      LET d == relative_depths
          z == z_true_values
      IN  /\ result.kind = "ok"
                => (Len(d) > 0 /\ Len(d) = Len(z) /\ SomeNonZero(d))
          /\ (Len(d) = 0 /\ Len(z) = 0) => ErrorIs(result, EmptyMsg)
          /\ Len(d) # Len(z) => ErrorIs(result, MismatchMsg)
          /\ (Len(d) > 0 /\ Len(d) = Len(z) /\ AllZero(d)) => ErrorIs(result, AllZeroMsg)

\* C6 amended: the empty-set error is raised whenever at least one of the two
\* sequences is empty (lengths equal or not), the mismatched-lengths error
\* when the lengths differ and both are non-empty, the degenerate-data error
\* when both are non-empty, of equal length and every d[i] is zero, and a
\* scale factor is returned otherwise; the three errors are ValueErrors with
\* pairwise different messages.
C6_ErrorKinds ==
    pc = "returned" =>
      LET d == relative_depths
          z == z_true_values
      IN  /\ result.kind = "ok"
                => (Len(d) > 0 /\ Len(d) = Len(z) /\ SomeNonZero(d))
          /\ (Len(d) = 0 \/ Len(z) = 0) => ErrorIs(result, EmptyMsg)
          /\ (Len(d) > 0 /\ Len(z) > 0 /\ Len(d) # Len(z))
                => ErrorIs(result, MismatchMsg)
          /\ (Len(d) > 0 /\ Len(d) = Len(z) /\ AllZero(d)) => ErrorIs(result, AllZeroMsg)
          /\ EmptyMsg # MismatchMsg /\ EmptyMsg # AllZeroMsg /\ MismatchMsg # AllZeroMsg

C6_Witness ==
    /\ pc = "returned"
    /\ relative_depths = <<>>
    /\ Len(z_true_values) = 2
    /\ ErrorIs(result, EmptyMsg)

(***************************************************************************)
(* Properties of extract_drone_relative_depth (under SpecDepth).           *)
(***************************************************************************)
Height == depth_map.shape[1]

Width == depth_map.shape[2]

Rejected == ErrorIs(result, InvalidBoxMsg)

\* both x coordinates (or both y coordinates) lie beyond the same frame border
FullyOutside(b, h, w) ==
    \/ RLeq(RInt(w), b[1]) /\ RLeq(RInt(w), b[3])
    \/ b[1][1] < 0 /\ b[3][1] < 0
    \/ RLeq(RInt(h), b[2]) /\ RLeq(RInt(h), b[4])
    \/ b[2][1] < 0 /\ b[4][1] < 0

\* C4 as stated: on an H x W depth map (H, W >= 1) a bounding box that lies
\* fully outside the frame on some side is rejected with the
\* invalid-bounding-box error and no relative depth is returned.
C4_OutsideBoxRejected ==
    (/\ pc = "returned"
     /\ Height >= 1 /\ Width >= 1
     /\ FullyOutside(bbox, Height, Width))
    => Rejected

Clamp(v, lo, hi) == IF v < lo THEN lo ELSE IF v > hi THEN hi ELSE v

\* the box of the floor/ceil rule
ReferenceBox(b, h, w) ==
    <<Clamp(Floor(b[1]), 0, w - 1), Clamp(Floor(b[2]), 0, h - 1),
      Clamp(Ceil(b[3]), 0, w), Clamp(Ceil(b[4]), 0, h)>>

Degenerate(c) == c[3] <= c[1] \/ c[4] <= c[2]

\* C5 as stated: for H, W >= 1 and every raw box the clamped box equals
\* x1 = clamp(floor(x1),0,W-1), x2 = clamp(ceil(x2),0,W),
\* y1 = clamp(floor(y1),0,H-1), y2 = clamp(ceil(y2),0,H), and the call is
\* rejected exactly when that box has x2 <= x1 or y2 <= y1.
C5_FloorCeilClamp ==
    (pc = "returned" /\ Height >= 1 /\ Width >= 1)
    => /\ ClampedBox(bbox, Height, Width) = ReferenceBox(bbox, Height, Width)
       /\ Rejected <=> Degenerate(ReferenceBox(bbox, Height, Width))

\* a non-integer coordinate strictly between 0 and n
FractionalInside(r, n) == r[2] # 1 /\ r[1] > 0 /\ RLess(r, RInt(n))

\* the floor/ceil box with the far corner rounded toward zero
TruncatedBox(b, h, w) ==
    LET ref == ReferenceBox(b, h, w)
    IN  <<ref[1], ref[2],
          IF FractionalInside(b[3], w) THEN ref[3] - 1 ELSE ref[3],
          IF FractionalInside(b[4], h) THEN ref[4] - 1 ELSE ref[4]>>

\* C5 amended: the code rounds every coordinate toward zero (int()), then
\* clamps.  For H, W >= 1 the clamped x1, y1 equal clamp(floor(x1),0,W-1),
\* clamp(floor(y1),0,H-1); the clamped x2 (y2) equals clamp(ceil(x2),0,W)
\* (clamp(ceil(y2),0,H)) except for a non-integer x2 with 0 < x2 < W (y2 with
\* 0 < y2 < H), where it is one less; the call is rejected exactly when the
\* box so clamped has x2 <= x1 or y2 <= y1.
C5_TruncatingClamp ==
    (pc = "returned" /\ Height >= 1 /\ Width >= 1)
    => /\ ClampedBox(bbox, Height, Width) = TruncatedBox(bbox, Height, Width)
       /\ Rejected <=> Degenerate(TruncatedBox(bbox, Height, Width))

\* a box whose far corner is fractional and inside the frame, accepted
C5_Witness ==
    /\ pc = "returned"
    /\ Height >= 1 /\ Width >= 2
    /\ bbox[1] = <<-3, 2>>
    /\ bbox[3] = <<3, 2>>
    /\ result.kind = "ok"
    /\ ClampedBox(bbox, Height, Width)[3] = 1
    /\ ReferenceBox(bbox, Height, Width)[3] = 2

\* the cells of the clamped box
BoxCells == 
    LET c == ClampedBox(bbox, Height, Width)
    IN  {<<r, k>> : r \in c[2]..(c[4] - 1), k \in c[1]..(c[3] - 1)}

CellValue(cell) == depth_map.data[cell[1]][cell[2]]

\* the k-th smallest value among the cells of the clamped box
KthSmallest(k) ==
    CHOOSE v \in {CellValue(cell) : cell \in BoxCells} :
        /\ Cardinality({cell \in BoxCells : RLess(CellValue(cell), v)}) < k
        /\ k <= Cardinality({cell \in BoxCells : RLeq(CellValue(cell), v)})

MedianOfBox ==
    LET n == Cardinality(BoxCells)
    IN  IF n % 2 = 1 THEN KthSmallest((n + 1) \div 2)
        ELSE RDiv(RAdd(KthSmallest(n \div 2), KthSmallest((n \div 2) + 1)), RInt(2))

UniformMap(v) ==
    \A r \in 0..(Height - 1) : \A k \in 0..(Width - 1) : depth_map.data[r][k] = v

\* C7: for every accepted box the call returns the median of exactly the
\* values depth_map[y1:y2, x1:x2] of the clamped box; on a map whose every
\* value is c it returns exactly c.
C7_MedianOfClampedBox ==
    (pc = "returned" /\ ~Rejected)
    => /\ result.kind = "ok"
       /\ result.value = MedianOfBox
       /\ UniformMap(depth_map.data[0][0]) => result.value = depth_map.data[0][0]

\* an even number of cells with different middle values
C7_Witness ==
    /\ pc = "returned"
    /\ result.kind = "ok"
    /\ Cardinality(BoxCells) = 2
    /\ ~UniformMap(depth_map.data[0][0])
    /\ result.value = <<1, 2>>

\* C10: for every depth map (H = 0 or W = 0 included) and every box, when
\* the invalid-bounding-box check passes the clamped box satisfies
\* 0 <= x1 < x2 <= W and 0 <= y1 < y2 <= H, the selection has
\* (x2-x1)*(y2-y1) >= 1 elements, and the 'No depth values found' failure
\* is never raised.
C10_SelectionNeverEmpty ==
    pc = "returned" =>
      LET c == ClampedBox(bbox, Height, Width)
      IN  /\ ~ErrorIs(result, NoDepthMsg)
          /\ ~Rejected =>
               /\ 0 <= c[1] /\ c[1] < c[3] /\ c[3] <= Width
               /\ 0 <= c[2] /\ c[2] < c[4] /\ c[4] <= Height
               /\ Len(SliceValues(depth_map, c[2], c[4], c[1], c[3]))
                     = (c[3] - c[1]) * (c[4] - c[2])
               /\ (c[3] - c[1]) * (c[4] - c[2]) >= 1
               /\ result.kind = "ok"
          /\ (Height = 0 \/ Width = 0) => Rejected

\* a box reaching beyond the frame passes the check after clamping
C10_Witness ==
    /\ pc = "returned"
    /\ ~Rejected
    /\ bbox[3] = RInt(Width + 5)
    /\ bbox[4] = RInt(Height + 5)
    /\ ClampedBox(bbox, Height, Width)[3] = Width

(***************************************************************************)
(* Properties of reconstruct_drone_position (under SpecProjection).        *)
(***************************************************************************)
\* C8: the call fails with the invalid-intrinsics error exactly when fx = 0
\* or fy = 0; otherwise it returns (X, Y, Z) with X*fx = (x_pixel - cx)*z,
\* Y*fy = (y_pixel - cy)*z, Z = z for z of any sign; the principal point maps
\* to (0, 0, z); the intrinsics are left as they were passed in.
C8_BackProjection ==
    pc = "returned" =>
      /\ ErrorIs(result, IntrinsicsMsg)
            <=> (intrinsics_in.fx = RInt(0) \/ intrinsics_in.fy = RInt(0))
      /\ result.kind # "error" =>
            /\ result.kind = "ok"
            /\ RMul(result.value[1], intrinsics_in.fx)
                  = RMul(RSub(x_pixel, intrinsics_in.cx), z_hat)
            /\ RMul(result.value[2], intrinsics_in.fy)
                  = RMul(RSub(y_pixel, intrinsics_in.cy), z_hat)
            /\ result.value[3] = z_hat
            /\ (x_pixel = intrinsics_in.cx /\ y_pixel = intrinsics_in.cy)
                  => result.value = <<RInt(0), RInt(0), z_hat>>
      /\ intrinsics = intrinsics_in

C8_Witness ==
    /\ pc = "returned"
    /\ intrinsics = [fx |-> RInt(100), fy |-> RInt(100), cx |-> RInt(320), cy |-> RInt(240)]
    /\ x_pixel = RInt(320) /\ y_pixel = RInt(240) /\ z_hat = RInt(10)
    /\ result = Ok(<<RInt(0), RInt(0), RInt(10)>>)

(***************************************************************************)
(* runner.py: the two pipelines, called one after the other by a           *)
(* single-threaded caller.                                                 *)
(***************************************************************************)
MaxSamples == 2

\* the frame size of the demo strategies: the parameters image_width / width
\* and image_height / height, which the pipelines leave at their defaults
\* (640 and 480); the model runs them on a smaller frame
ImageWidth == 30

ImageHeight == 40

Images == {1, 2}

DistanceChoices == {RInt(2), RInt(3)}

\* values of the four random.uniform calls of the demo detector, each within
\* its range: (0.04, 0.12), (0.03, 0.10), (0.25, 0.75), (0.20, 0.60)
UniformDraws ==
    {<<<<1, 25>>, <<3, 100>>, <<1, 4>>, <<1, 5>>>>,
     <<<<2, 25>>, <<1, 20>>, <<1, 2>>, <<2, 5>>>>,
     <<<<3, 25>>, <<1, 10>>, <<3, 4>>, <<3, 5>>>>,
     <<<<1, 25>>, <<1, 10>>, <<3, 4>>, <<1, 5>>>>}

Candidate(conf, x1, y1, x2, y2) == [conf |-> conf, xyxy |-> <<x1, y1, x2, y2>>]

\* image 1: one box; image 2: nothing above the threshold
DetectorA ==
    (1 :> <<Candidate(<<9, 10>>, <<1, 2>>, RInt(0), <<5, 2>>, RInt(2))>>)
    @@ (2 :> <<>>)

\* image 1: three boxes, the best confidence twice; image 2: a box with no width
DetectorB ==
    (1 :> <<Candidate(<<1, 4>>, RInt(0), RInt(0), RInt(2), RInt(2)),
            Candidate(<<1, 2>>, RInt(0), RInt(0), RInt(1), RInt(1)),
            Candidate(<<1, 2>>, RInt(1), RInt(1), RInt(2), RInt(2))>>)
    @@ (2 :> <<Candidate(<<3, 4>>, RInt(1), RInt(1), <<3, 2>>, RInt(2))>>)

DepthModelFailedMsg == "Depth model failed."

\* image 1: a 2 x 2 gradient; image 2: the model raises
DepthA ==
    (1 :> Ok(MapOf(2, 2, 1, 2, 1)))
    @@ (2 :> Raise("RuntimeError", DepthModelFailedMsg))

\* image 1: an all-zero map; image 2: a constant map
DepthB ==
    (1 :> Ok(MapOf(2, 3, 0, 0, 0)))
    @@ (2 :> Ok(MapOf(2, 2, 0, 0, 3)))

\* (mode, model) as the callers pass them: no model in demo mode
DetectionChoices == {<<"demo", None>>, <<"real", DetectorA>>, <<"real", DetectorB>>}

DepthChoices == {<<"demo", None>>, <<"real", DepthA>>, <<"real", DepthB>>}

ScaleChoices == {RInt(2), <<1, 2>>}

IntrinsicsChoices ==
    {[fx |-> RInt(100), fy |-> RInt(100), cx |-> RInt(15), cy |-> RInt(20)],
     [fx |-> RInt(0), fy |-> RInt(100), cx |-> RInt(15), cy |-> RInt(20)]}

argVars == <<entry, images, true_distances, detection_mode, depth_mode,
             detector_model, depth_model, scale_factor, intrinsics, intrinsics_in>>

Init ==
    /\ pc = "idle"
    /\ PipelineIdle
    /\ relative_depths = None /\ z_true_values = None
    /\ depth_map = None /\ bbox = None
    /\ x_pixel = None /\ y_pixel = None /\ z_hat = None
    /\ intrinsics = None /\ intrinsics_in = None
    /\ result = NoResult

\* what a step did: "ok", or the exception it raised
Step(op, sample, r) ==
    [op |-> op, sample |-> sample,
     outcome |-> IF r.kind = "error" THEN r ELSE [kind |-> "ok"]]

DrawsFor(mode) == IF mode = "demo" THEN UniformDraws ELSE {<<>>}

\* "---- Detection ----"
Detect(img, u) ==
    IF detection_mode = "demo"
    THEN detect_drone_demo(img, ImageWidth, ImageHeight, u)
    ELSE detect_drone(img, detector_model)

\* the demo map is the same for every image
DemoDepth == estimate_relative_depth_demo(None, ImageWidth, ImageHeight)

\* "---- Depth estimation ----"
EstimateDepth(img) ==
    IF depth_mode = "demo" THEN DemoDepth
    ELSE estimate_relative_depth(img, depth_model)

CallCalibration(imageSeqs, distanceSeqs) ==
    /\ pc = "idle"
    /\ \E imgs \in imageSeqs, dists \in distanceSeqs,
          det \in DetectionChoices, dep \in DepthChoices :
         /\ entry' = "run_calibration_pipeline"
         /\ images' = imgs
         /\ true_distances' = dists
         /\ detection_mode' = det[1] /\ detector_model' = det[2]
         /\ depth_mode' = dep[1] /\ depth_model' = dep[2]
    /\ relative_depths' = <<>>
    /\ z_true_values' = <<>>
    /\ idx' = 0
    /\ steps' = <<>>
    /\ result' = NoResult
    /\ pc' = "cal_zip"
    /\ UNCHANGED <<image, scale_factor, intrinsics, intrinsics_in, detection,
                   depth_map, bbox, d_rel, x_pixel, y_pixel, z_hat, prev>>

\* zip(images, true_distances) has another pair
PairsLeft == idx < Len(images) /\ idx < Len(true_distances)

\* a failed detection is dropped and the loop goes on with the next pair
CalDetect_skip ==
    /\ pc = "cal_zip"
    /\ PairsLeft
    /\ image' = images[idx + 1]
    /\ \E u \in DrawsFor(detection_mode) :
         LET r == Detect(images[idx + 1], u)
         IN  /\ steps' = Append(steps, Step("detect", idx + 1, r))
             /\ IF r.kind = "error"
                THEN /\ idx' = idx + 1
                     /\ pc' = "cal_zip"
                     /\ UNCHANGED <<detection, bbox>>
                ELSE /\ detection' = r.value
                     /\ bbox' = r.value.bbox
                     /\ pc' = "cal_depth"
                     /\ UNCHANGED idx
    /\ UNCHANGED <<argVars, result, relative_depths, z_true_values, depth_map, d_rel,
                   x_pixel, y_pixel, z_hat, prev>>

CalDetect ==
    /\ pc = "cal_zip"
    /\ PairsLeft
    /\ image' = images[idx + 1]
    /\ \E u \in DrawsFor(detection_mode) :
         LET r == Detect(images[idx + 1], u)
         IN  /\ steps' = Append(steps, Step("detect", idx + 1, r))
             /\ IF r.kind = "error"
                THEN /\ result' = r
                     /\ pc' = "returned"
                     /\ UNCHANGED <<detection, bbox>>
                ELSE /\ detection' = r.value
                     /\ bbox' = r.value.bbox
                     /\ pc' = "cal_depth"
                     /\ UNCHANGED result
    /\ UNCHANGED <<argVars, idx, relative_depths, z_true_values, depth_map, d_rel,
                   x_pixel, y_pixel, z_hat, prev>>

CalDepth ==
    /\ pc = "cal_depth"
    /\ LET r == EstimateDepth(image)
       IN  /\ steps' = Append(steps, Step("depth", idx + 1, r))
           /\ IF r.kind = "error"
              THEN result' = r /\ pc' = "returned" /\ UNCHANGED depth_map
              ELSE depth_map' = r.value /\ pc' = "cal_extract" /\ UNCHANGED result
    /\ UNCHANGED <<argVars, image, idx, relative_depths, z_true_values, detection,
                   bbox, d_rel, x_pixel, y_pixel, z_hat, prev>>

CalExtract ==
    /\ pc = "cal_extract"
    /\ LET r == extract_drone_relative_depth(depth_map, bbox)
       IN  /\ steps' = Append(steps, Step("extract", idx + 1, r))
           /\ IF r.kind = "error"
              THEN /\ result' = r
                   /\ pc' = "returned"
                   /\ UNCHANGED <<d_rel, relative_depths, z_true_values, idx>>
              ELSE /\ d_rel' = r.value
                   /\ relative_depths' = Append(relative_depths, r.value)
                   /\ z_true_values' = Append(z_true_values, true_distances[idx + 1])
                   /\ idx' = idx + 1
                   /\ pc' = "cal_zip"
                   /\ UNCHANGED result
    /\ UNCHANGED <<argVars, image, detection, depth_map, bbox, x_pixel, y_pixel,
                   z_hat, prev>>

\* "---- Scale calibration ----", once zip is exhausted
CalFit ==
    /\ pc = "cal_zip"
    /\ ~PairsLeft
    /\ LET r == compute_scale_factor(relative_depths, z_true_values)
       IN  /\ steps' = Append(steps, Step("fit", 0, r))
           /\ result' = r
    /\ pc' = "returned"
    /\ UNCHANGED <<argVars, image, idx, relative_depths, z_true_values, detection,
                   depth_map, bbox, d_rel, x_pixel, y_pixel, z_hat, prev>>

CallRuntime(imageChoices, scaleChoices, intrinsicsChoices) ==
    /\ pc = "idle"
    /\ \E img \in imageChoices, s \in scaleChoices, intr \in intrinsicsChoices,
          det \in DetectionChoices, dep \in DepthChoices :
         /\ entry' = "run_runtime_pipeline"
         /\ image' = img
         /\ scale_factor' = s
         /\ intrinsics' = intr
         /\ intrinsics_in' = intr
         /\ detection_mode' = det[1] /\ detector_model' = det[2]
         /\ depth_mode' = dep[1] /\ depth_model' = dep[2]
    /\ steps' = <<>>
    /\ result' = NoResult
    /\ pc' = "rt_detect"
    /\ UNCHANGED <<images, true_distances, idx, relative_depths, z_true_values,
                   detection, depth_map, bbox, d_rel, x_pixel, y_pixel, z_hat, prev>>

RtDetect ==
    /\ pc = "rt_detect"
    /\ \E u \in DrawsFor(detection_mode) :
         LET r == Detect(image, u)
         IN  /\ steps' = Append(steps, Step("detect", 1, r))
             /\ IF r.kind = "error"
                THEN /\ result' = r
                     /\ pc' = "returned"
                     /\ UNCHANGED <<detection, bbox, x_pixel, y_pixel>>
                ELSE /\ detection' = r.value
                     /\ bbox' = r.value.bbox
                     /\ x_pixel' = r.value.x_pixel
                     /\ y_pixel' = r.value.y_pixel
                     /\ pc' = "rt_depth"
                     /\ UNCHANGED result
    /\ UNCHANGED <<argVars, image, idx, relative_depths, z_true_values, depth_map,
                   d_rel, z_hat, prev>>

RtDepth ==
    /\ pc = "rt_depth"
    /\ LET r == EstimateDepth(image)
       IN  /\ steps' = Append(steps, Step("depth", 1, r))
           /\ IF r.kind = "error"
              THEN result' = r /\ pc' = "returned" /\ UNCHANGED depth_map
              ELSE depth_map' = r.value /\ pc' = "rt_extract" /\ UNCHANGED result
    /\ UNCHANGED <<argVars, image, idx, relative_depths, z_true_values, detection,
                   bbox, d_rel, x_pixel, y_pixel, z_hat, prev>>

RtExtract ==
    /\ pc = "rt_extract"
    /\ LET r == extract_drone_relative_depth(depth_map, bbox)
       IN  /\ steps' = Append(steps, Step("extract", 1, r))
           /\ IF r.kind = "error"
              THEN result' = r /\ pc' = "returned" /\ UNCHANGED d_rel
              ELSE d_rel' = r.value /\ pc' = "rt_project" /\ UNCHANGED result
    /\ UNCHANGED <<argVars, image, idx, relative_depths, z_true_values, detection,
                   depth_map, bbox, x_pixel, y_pixel, z_hat, prev>>

\* "---- Metric depth ----" and "---- Geometry ----"
RtProject ==
    /\ pc = "rt_project"
    /\ z_hat' = RMul(scale_factor, d_rel)
    /\ LET r == reconstruct_drone_position(x_pixel, y_pixel, z_hat', intrinsics)
       IN  /\ steps' = Append(steps, Step("project", 1, r))
           /\ result' = r
    /\ pc' = "returned"
    /\ UNCHANGED <<argVars, image, idx, relative_depths, z_true_values, detection,
                   depth_map, bbox, d_rel, x_pixel, y_pixel, prev>>

\* the call is over: its frame is gone, the caller is free to call again
FrameGone ==
    /\ pc' = "idle"
    /\ entry' = None /\ images' = None /\ image' = None /\ true_distances' = None
    /\ detection_mode' = None /\ depth_mode' = None
    /\ detector_model' = None /\ depth_model' = None
    /\ scale_factor' = None /\ idx' = 0 /\ d_rel' = None
    /\ detection' = None /\ steps' = <<>>
    /\ relative_depths' = None /\ z_true_values' = None
    /\ depth_map' = None /\ bbox' = None
    /\ x_pixel' = None /\ y_pixel' = None /\ z_hat' = None
    /\ intrinsics' = None /\ intrinsics_in' = None
    /\ result' = NoResult

Return ==
    /\ pc = "returned"
    /\ FrameGone
    /\ UNCHANGED prev

Next ==
    \/ CallCalibration(SeqsUpTo(Images, MaxSamples), SeqsUpTo(DistanceChoices, MaxSamples))
    \/ CalDetect
    \/ CalDepth
    \/ CalExtract
    \/ CalFit
    \/ CallRuntime(Images, ScaleChoices, IntrinsicsChoices)
    \/ RtDetect
    \/ RtDepth
    \/ RtExtract
    \/ RtProject
    \/ Return

Spec == Init /\ [][Next]_vars

(***************************************************************************)
(* The same caller, remembering its first pipeline call.                   *)
(***************************************************************************)
\* the arguments of the call being executed
CallArgs ==
    [entry |-> entry, images |-> images, image |-> IF entry = "run_runtime_pipeline" THEN image ELSE None,
     true_distances |-> true_distances, scale_factor |-> scale_factor,
     intrinsics |-> intrinsics_in,
     detection_mode |-> detection_mode, depth_mode |-> depth_mode,
     detector_model |-> detector_model, depth_model |-> depth_model]

ReturnRemember ==
    /\ pc = "returned"
    /\ prev' = IF prev.set THEN prev
               ELSE [set |-> TRUE, args |-> CallArgs, result |-> result]
    /\ FrameGone

NextRepeat ==
    \/ CallCalibration({<<1>>}, {<<RInt(2)>>})
    \/ CalDetect
    \/ CalDepth
    \/ CalExtract
    \/ CalFit
    \/ CallRuntime({1}, {RInt(2)}, IntrinsicsChoices)
    \/ RtDetect
    \/ RtDepth
    \/ RtExtract
    \/ RtProject
    \/ ReturnRemember

SpecRepeat == Init /\ [][NextRepeat]_vars

(***************************************************************************)
(* Properties of the pipelines (under Spec, C9 under SpecRepeat).          *)
(***************************************************************************)
StepFailed(k) == steps[k].outcome.kind = "error"

StepOps == [k \in 1..Len(steps) |-> steps[k].op]

\* C2: both pipelines fail fast and substitute nothing.  A step that fails
\* (detection, depth estimation, depth extraction, the fit, the projection)
\* is the last step the call executes: no later step of that sample, no step
\* of a later sample and no fit follow it, and the call ends with that very
\* failure; a call that returns a scale factor or a position ran every step
\* without a failure.
C2_FailFast ==
    /\ \A k \in 1..Len(steps) :
         StepFailed(k) =>
            /\ k = Len(steps)
            /\ pc = "returned"
            /\ result.kind = "error"
            /\ result = steps[k].outcome
    /\ (pc = "returned" /\ result.kind # "error") =>
            /\ result.kind = "ok"
            /\ \A k \in 1..Len(steps) : ~StepFailed(k)
            /\ entry = "run_runtime_pipeline"
                  => StepOps = <<"detect", "depth", "extract", "project">>
            /\ entry = "run_calibration_pipeline"
                  => /\ Len(steps) = 3 * idx + 1
                     /\ steps[Len(steps)].op = "fit"

\* the second sample's detection fails after a good first sample
C2_Witness ==
    /\ pc = "returned"
    /\ entry = "run_calibration_pipeline"
    /\ Len(steps) = 4
    /\ Len(relative_depths) = 1
    /\ steps[4].op = "detect" /\ steps[4].sample = 2
    /\ StepFailed(4)
    /\ result = Raise("RuntimeError", NoDroneMsg)

\* C3 as stated: whenever run_calibration_pipeline returns a scale factor,
\* exactly one (relative depth, distance) pair was accumulated, in input
\* order, for every supplied image and every supplied distance; with
\* sequences of different lengths no scale factor fitted on a subset of
\* them is returned.
C3_FitsOnEverySuppliedSample ==
    (/\ pc = "returned"
     /\ entry = "run_calibration_pipeline"
     /\ result.kind = "ok")
    => /\ Len(relative_depths) = Len(images)
       /\ z_true_values = true_distances
       /\ \A i \in 1..Len(images) :
            Cardinality({k \in 1..Len(steps) :
                            steps[k].op = "extract" /\ steps[k].sample = i}) = 1

SameCall(a, b) ==
    /\ a.entry = b.entry
    /\ a.detection_mode = b.detection_mode
    /\ a.depth_mode = b.depth_mode
    /\ a.detection_mode = "real" => a.detector_model = b.detector_model
    /\ a.depth_mode = "real" => a.depth_model = b.depth_model
    /\ a.entry = "run_calibration_pipeline"
          => a.images = b.images /\ a.true_distances = b.true_distances
    /\ a.entry = "run_runtime_pipeline"
          => /\ a.image = b.image
             /\ a.scale_factor = b.scale_factor
             /\ a.intrinsics = b.intrinsics

\* C9 as stated: a pipeline call with the same arguments and strategies as
\* an earlier call returns what the earlier call returned, whatever calls
\* happened before or in between, for the demo strategies as for the
\* model-backed ones.
C9_SameCallSameResult ==
    (pc = "returned" /\ prev.set /\ SameCall(prev.args, CallArgs))
    => result = prev.result

====
